---- MODULE Spec2Model ----
(***************************************************************************)
(* A model of src/Mod/BIM/ArchCommands.py: the utility functions of the    *)
(* BIM workbench that act on the document-object graph.                    *)
(*                                                                         *)
(* Each group of functions has its own specification over the shared       *)
(* variables:                                                              *)
(*   Spec          addComponents / removeComponents on a small document    *)
(*   SpecSubtract  the same on a document of wall-like hosts only          *)
(*   SpecSurvey    survey mode: survey(), its observer and its task panel  *)
(*   SpecHost      getHost on the graphs of a small document               *)
(*   SpecPrune     pruneIncluded on lists of objects of a small document   *)
(*   SpecMerge     mergeCells on the cells of a small document             *)
(*   SpecChildren  getAllChildren on the graphs of a small document        *)
(*   SpecCopy      copyProperties between two objects                      *)
(*   SpecExtrusion getExtrusionData on shapes of a few planar faces        *)
(*   SpecFace      makeFace on lists of two or more wires                  *)
(*   SpecMesh      meshToShape on the objects of a small document          *)
(***************************************************************************)
EXTENDS Integers, Sequences, FiniteSets, TLC

VARIABLES
    Group,              \* host -> its Group link list
    Additions,          \* host -> its Additions link list
    Subtractions,       \* host -> its Subtractions link list
    Axes,               \* host -> its Axes link list
    Objects,            \* host -> its Objects link list (section planes)
    Tool,               \* host -> its Tool link
    Hosts,              \* component -> its Hosts link list (windows)
    AttachmentSupport,  \* component -> the object its AttachmentSupport resolves to
    GuiUp,              \* FreeCAD.GuiUp
    docObjs,            \* the objects of the document
    last,               \* the last call: its name, arguments and whether it raised
    nOps,               \* number of calls made so far
    SurveyObserver,     \* FreeCAD.SurveyObserver: the observer's fields, and whether it is set
    observers,          \* number of survey observers registered with Selection
    SurveyDialog,       \* whether FreeCAD.SurveyDialog is set
    dialogShown,        \* whether Control shows a task dialog
    docLabels,          \* names of the annotation labels in the document
    guiSelection,       \* FreeCADGui.Selection.getSelectionEx()
    objKind,            \* object -> what kind of object it is
    InList,             \* object -> its InList: the objects that link to it
    linkRef,            \* object -> the object its Host, Hosts, BaseFeature or
                        \*           CloneOf property links to, or None
    Components,         \* cell -> its Components list
    OutList,            \* object -> its OutList: the objects it links to
    Properties,         \* object -> property name -> its value, or Absent
    ViewObject,         \* object -> whether it has a ViewObject, and the
                        \*           ViewObject's properties
    shape,              \* the shape given to getExtrusionData
    wires,              \* the caller's list of wires given to makeFace
    meshDoc             \* the objects of the document meshToShape works on

compVars == <<Group, Additions, Subtractions, Axes, Objects, Tool, Hosts,
              AttachmentSupport, GuiUp, docObjs, last, nOps>>

surveyVars == <<SurveyObserver, observers, SurveyDialog, dialogShown, docLabels,
                guiSelection>>

graphVars == <<objKind, InList, linkRef>>

mergeVars == <<Components>>

toolVars == <<OutList, Properties, ViewObject, shape, wires, meshDoc>>

vars == <<compVars, surveyVars, graphVars, mergeVars, toolVars>>

None == "None"

----------------------------------------------------------------------------
(* Sequence helpers standing for Python's list operations.                 *)

\* o in l
InSeq(o, l) == \E i \in 1..Len(l) : l[i] = o

\* the elements of l
Elems(l) == {l[i] : i \in 1..Len(l)}

\* number of times o is listed in l
RECURSIVE Count(_, _)
Count(o, l) == IF l = <<>> THEN 0
               ELSE (IF Head(l) = o THEN 1 ELSE 0) + Count(o, Tail(l))

NoDup(l) == \A i, j \in 1..Len(l) : l[i] = l[j] => i = j

\* l.remove(o): drops the first occurrence of o
RECURSIVE ListRemove(_, _)
ListRemove(l, o) == IF l = <<>> THEN <<>>
                    ELSE IF Head(l) = o THEN Tail(l)
                    ELSE <<Head(l)>> \o ListRemove(Tail(l), o)

\* all sequences over S of length at most n
SeqsUpTo(S, n) == UNION {[1..k -> S] : k \in 0..n}

----------------------------------------------------------------------------
(* The document of the component specification: five hosts, one of each    *)
(* kind addComponents and removeComponents tell apart, and five            *)
(* components, one of each kind they tell apart.                           *)

MaxOps == 2      \* calls per behaviour
MaxList == 2     \* length of an objectsList argument

HostObjs == {"Floor1", "Wall1", "Structure1", "Section1", "Group1"}
CompObjs == {"Solid1", "Window1", "Axis1", "Wire1", "Mesh1"}

\* Draft.getType(obj)
DraftType(obj) ==
    CASE obj = "Floor1"     -> "Floor"
      [] obj = "Wall1"      -> "Wall"
      [] obj = "Structure1" -> "Structure"
      [] obj = "Section1"   -> "SectionPlane"
      [] obj = "Group1"     -> "Group"
      [] obj = "Solid1"     -> "Part"
      [] obj = "Window1"    -> "Window"
      [] obj = "Axis1"      -> "Axis"
      [] obj = "Wire1"      -> "Wire"
      [] obj = "Mesh1"      -> "Mesh"
      [] OTHER              -> "None"

GroupHostTypes == {"Floor", "Building", "Site", "Project", "BuildingPart"}
WallLikeTypes == {"Wall", "CurtainWall", "Structure", "Precast", "Window", "Roof",
                  "Stairs", "StructuralSystem", "Panel", "Component", "Pipe"}
SectionTypes == {"SectionPlane"}
ToolHostTypes == {"Structure", "Precast"}
RemoveGroupTypes == {"Floor", "Building", "Site", "BuildingPart"}
RemoveWallTypes == {"Wall", "Structure", "Precast"}

\* host.isDerivedFrom("App::DocumentObjectGroup")
IsDocumentObjectGroup(h) == h = "Group1"
\* hasattr(host, "Axes")
HasAxes(h) == h = "Structure1"
\* hasattr(host, "Tool")
HasTool(h) == h = "Structure1"
\* hasattr(o, "Shape")
HasShape(o) == o # "Mesh1"
\* hasattr(o, "Hosts")
HasHosts(o) == o = "Window1"
\* DraftGeomUtils.isValidPath(o.Shape)
IsValidPath(o) == o = "Wire1"
\* host.Base: the wall is built on the wire
Base(h) == IF h = "Wall1" THEN "Wire1" ELSE None

\* An objectsList argument: a list, or a single object that is not a list.
ListArgs == {[isList |-> TRUE, items |-> l] : l \in SeqsUpTo(CompObjs \cap docObjs, MaxList)}
                \cup {[isList |-> FALSE, items |-> <<o>>] : o \in CompObjs \cap docObjs}
HostArgs == HostObjs \cap docObjs

\* if not isinstance(objectsList,list): objectsList = [objectsList]
AsList(arg) == arg.items

\* The objects that link to o, i.e. the members of o.InList.
Parents(o) == {h \in HostObjs : \/ InSeq(o, Group[h])
                                \/ InSeq(o, Additions[h])
                                \/ InSeq(o, Subtractions[h])
                                \/ InSeq(o, Axes[h])
                                \/ InSeq(o, Objects[h])
                                \/ Tool[h] = o
                                \/ Base(h) = o}

EmptyLinks == [h \in HostObjs |-> <<>>]

NoCall == [op |-> "init", arg |-> [isList |-> TRUE, items |-> <<>>],
           host |-> None, raised |-> FALSE]

Call(op, arg, host, raised) == [op |-> op, arg |-> arg, host |-> host, raised |-> raised]

\* FreeCAD has no attribute SurveyObserver.
NoObserver == [exists |-> FALSE, selection |-> <<>>, labels |-> <<>>, totalLength |-> 0,
               totalArea |-> 0, totalVolume |-> 0, cancellable |-> FALSE,
               doubleclear |-> FALSE]

\* The objects of the documents whose graph getHost and pruneIncluded walk.
GraphObjs == {"o1", "o2", "o3", "o4"}

\* The graph variables of a document without such objects.
GraphIdle ==
    /\ objKind = [o \in GraphObjs |-> None]
    /\ InList = [o \in GraphObjs |-> <<>>]
    /\ linkRef = [o \in GraphObjs |-> None]

\* The objects mergeCells is given: two floors, a third floor, a site and a
\* wall.
CellObjs == {"Floor001", "Floor002", "Floor003", "Site001", "Wall001"}

\* The Components lists of a document without cells.
MergeIdle == Components = [o \in CellObjs |-> <<>>]

\* The OutLists of a document without objects that link to others.
ChildIdle == OutList = [o \in GraphObjs |-> <<>>]

\* The objects copyProperties is given, the names their properties and the
\* properties of their ViewObjects can have, and the values of a property.
CopyObjs == {"Wall002", "Window002"}
PropNames == {"Proxy", "Shape", "Height"}
ViewPropNames == {"Proxy", "ShapeColor"}
PropValues == {"v1", "v2"}

\* The value of a property an object does not have.
Absent == "absent"

NoViewObject == [exists |-> FALSE, props |-> [p \in ViewPropNames |-> Absent]]

\* The properties of a document without such objects.
CopyIdle ==
    /\ Properties = [o \in CopyObjs |-> [p \in PropNames |-> Absent]]
    /\ ViewObject = [o \in CopyObjs |-> NoViewObject]

\* Part.Shape(): the null shape
NullShape == [isNull |-> TRUE, hasSolids |-> FALSE, Faces |-> <<>>]

ShapeIdle == shape = NullShape

WiresIdle == wires = <<>>

MeshIdle == meshDoc = {}

\* The variables of the other functions while they are not called.
ToolIdle == ChildIdle /\ CopyIdle /\ ShapeIdle /\ WiresIdle /\ MeshIdle

\* The survey variables while no survey runs.
SurveyIdle ==
    /\ SurveyObserver = NoObserver
    /\ observers = 0
    /\ SurveyDialog = FALSE
    /\ dialogShown = FALSE
    /\ docLabels = {}
    /\ guiSelection = <<>>

CompInit ==
    /\ SurveyIdle
    /\ GraphIdle
    /\ MergeIdle
    /\ ToolIdle
    /\ docObjs = HostObjs \cup CompObjs
    /\ Group = EmptyLinks
    /\ Additions = EmptyLinks
    /\ Subtractions = EmptyLinks
    /\ Axes = EmptyLinks
    /\ Objects = EmptyLinks
    /\ Tool = [h \in HostObjs |-> None]
    /\ Hosts = [o \in CompObjs |-> <<>>]
    /\ AttachmentSupport = [o \in CompObjs |-> IF o = "Wire1" THEN "Structure1" ELSE None]
    /\ GuiUp \in BOOLEAN
    /\ last = NoCall
    /\ nOps = 0

----------------------------------------------------------------------------
(* addComponents(objectsList, host)                                        *)

\* host.addObject(o)
AddObject(g, o) == IF InSeq(o, g) THEN g ELSE Append(g, o)

RECURSIVE AddObjects(_, _)
AddObjects(g, objs) == IF objs = <<>> THEN g
                       ELSE AddObjects(AddObject(g, Head(objs)), Tail(objs))

\* One iteration of the loop over objectsList for a wall-like host. st holds the
\* locals a and x, the properties written inside the loop, and whether the
\* iteration raised (x is unbound when the host has no Axes).
AddWallStep(o, host, st) ==
    IF ~HasShape(o) THEN st
    ELSE IF DraftType(o) = "Window" THEN
        IF HasHosts(o) /\ ~InSeq(host, st.hosts[o])
        THEN [st EXCEPT !.hosts[o] = Append(@, host)]
        ELSE st
    ELSE IF IsValidPath(o) /\ DraftType(host) \in ToolHostTypes THEN
        [st EXCEPT !.att[o] = IF @ = host THEN None ELSE @, !.tool = o]
    ELSE IF DraftType(o) = "Axis" THEN
        IF ~HasAxes(host) THEN [st EXCEPT !.raised = TRUE]
        ELSE IF ~InSeq(o, st.x) THEN [st EXCEPT !.x = Append(@, o)]
        ELSE st
    ELSE IF ~InSeq(o, st.a) THEN [st EXCEPT !.a = Append(@, o)]
    ELSE st

RECURSIVE AddWallLoop(_, _, _)
AddWallLoop(objs, host, st) ==
    IF objs = <<>> \/ st.raised THEN st
    ELSE AddWallLoop(Tail(objs), host, AddWallStep(Head(objs), host, st))

\* a.append(o) for the objects not yet in a (section plane host)
RECURSIVE AppendNew(_, _)
AppendNew(a, objs) == IF objs = <<>> THEN a
                      ELSE AppendNew(AddObject(a, Head(objs)), Tail(objs))

addComponents(arg, host) ==
    LET objs == AsList(arg)
        hostType == DraftType(host)
        st == AddWallLoop(objs, host,
                          [a |-> Additions[host], x |-> Axes[host], hosts |-> Hosts,
                           tool |-> Tool[host], att |-> AttachmentSupport,
                           raised |-> FALSE])
    IN
    /\ nOps' = nOps + 1
    /\ UNCHANGED <<GuiUp, docObjs>>
    /\ UNCHANGED Subtractions
    /\ IF hostType \in GroupHostTypes THEN
            /\ Group' = [Group EXCEPT ![host] = AddObjects(@, objs)]
            /\ UNCHANGED <<Additions, Axes, Objects, Tool, Hosts, AttachmentSupport>>
            /\ last' = Call("addComponents", arg, host, FALSE)
       ELSE IF hostType \in WallLikeTypes THEN
            /\ Hosts' = st.hosts
            /\ Tool' = [Tool EXCEPT ![host] = st.tool]
            /\ AttachmentSupport' = st.att
            /\ Additions' = IF st.raised THEN Additions
                            ELSE [Additions EXCEPT ![host] = st.a]
            /\ Axes' = IF st.raised \/ ~HasAxes(host) THEN Axes
                       ELSE [Axes EXCEPT ![host] = st.x]
            /\ UNCHANGED <<Group, Objects>>
            /\ last' = Call("addComponents", arg, host, st.raised)
       ELSE IF hostType \in SectionTypes THEN
            /\ Objects' = [Objects EXCEPT ![host] = AppendNew(@, objs)]
            /\ UNCHANGED <<Group, Additions, Axes, Tool, Hosts, AttachmentSupport>>
            /\ last' = Call("addComponents", arg, host, FALSE)
       ELSE IF IsDocumentObjectGroup(host) THEN
            /\ Group' = [Group EXCEPT ![host] = AddObjects(@, objs)]
            /\ UNCHANGED <<Additions, Axes, Objects, Tool, Hosts, AttachmentSupport>>
            /\ last' = Call("addComponents", arg, host, FALSE)
       ELSE
            /\ UNCHANGED <<Group, Additions, Axes, Objects, Tool, Hosts,
                           AttachmentSupport>>
            /\ last' = Call("addComponents", arg, host, FALSE)

AddComponents ==
    /\ nOps < MaxOps
    /\ \E arg \in ListArgs, host \in HostArgs : addComponents(arg, host)
    /\ UNCHANGED <<surveyVars, graphVars, mergeVars, toolVars>>

----------------------------------------------------------------------------
(* removeComponents(objectsList, host=None)                                *)

\* Draft.ungroup(o), called by setAsSubcomponent: o leaves every group.
Ungroup(group, o) ==
    [h \in HostObjs |-> IF DraftType(h) \in GroupHostTypes \/ IsDocumentObjectGroup(h)
                        THEN SelectSeq(group[h], LAMBDA c : c # o)
                        ELSE group[h]]

\* for o in objectsList[:]: if o in a: a.remove(o); objectsList.remove(o)
\* iter is what is left of the copy objectsList[:], a the copy of host.Axes.
RECURSIVE DropAxes(_, _, _)
DropAxes(iter, a, objs) ==
    IF iter = <<>> THEN objs
    ELSE IF InSeq(Head(iter), a)
         THEN DropAxes(Tail(iter), ListRemove(a, Head(iter)), ListRemove(objs, Head(iter)))
         ELSE DropAxes(Tail(iter), a, objs)

\* SubtractStep without the test "not o in s": every listed object is appended.
SubtractStepAlwaysAppends(o, host, st) ==
    IF DraftType(o) = "Window" THEN
        IF HasHosts(o) /\ ~InSeq(host, st.hosts[o])
        THEN [st EXCEPT !.hosts[o] = Append(@, host)]
        ELSE st
    ELSE [st EXCEPT !.s = Append(@, o),
                    !.att[o] = IF @ = host THEN None ELSE @]

\* One iteration of the loop that fills s, the copy of host.Subtractions.
SubtractStep(o, host, st) ==
    IF DraftType(o) = "Window" THEN
        IF HasHosts(o) /\ ~InSeq(host, st.hosts[o])
        THEN [st EXCEPT !.hosts[o] = Append(@, host)]
        ELSE st
    ELSE IF ~InSeq(o, st.s) THEN
        [st EXCEPT !.s = Append(@, o),
                   !.group = IF GuiUp /\ DraftType(o) \notin {"Window", "Roof"}
                             THEN Ungroup(@, o) ELSE @,
                   !.att[o] = IF @ = host THEN None ELSE @]
    ELSE st

RECURSIVE SubtractLoop(_, _, _)
SubtractLoop(objs, host, st) ==
    IF objs = <<>> THEN st
    ELSE SubtractLoop(Tail(objs), host, SubtractStep(Head(objs), host, st))

\* The members of o.InList while the loop without host runs.
ParentsIn(o, st) == {h \in HostObjs : \/ InSeq(o, st.group[h])
                                      \/ InSeq(o, st.adds[h])
                                      \/ InSeq(o, st.subs[h])
                                      \/ InSeq(o, st.objects[h])
                                      \/ InSeq(o, Axes[h])
                                      \/ Tool[h] = o
                                      \/ Base(h) = o}

\* One iteration of the loop without host, h being o.InList[0] (None when
\* InList is empty). o.ViewObject is None without the GUI, so show() raises;
\* s is a list, so s.Base raises.
DetachStep(o, h, st) ==
    LET tp == DraftType(h)
        r == IF h = None THEN st
             ELSE IF tp \in RemoveGroupTypes THEN
                 IF InSeq(o, st.group[h])
                 THEN [st EXCEPT !.group[h] = ListRemove(@, o), !.raised = ~GuiUp]
                 ELSE st
             ELSE IF tp \in RemoveWallTypes THEN
                 IF InSeq(o, st.adds[h])
                 THEN [st EXCEPT !.adds[h] = ListRemove(@, o), !.raised = ~GuiUp]
                 ELSE IF InSeq(o, st.subs[h])
                 THEN [st EXCEPT !.subs[h] = ListRemove(@, o), !.raised = ~GuiUp]
                 ELSE [st EXCEPT !.raised = TRUE]
             ELSE IF tp \in SectionTypes THEN
                 IF InSeq(o, st.objects[h])
                 THEN [st EXCEPT !.objects[h] = ListRemove(@, o)]
                 ELSE st
             ELSE st
    IN IF r.raised THEN r
       ELSE IF HasHosts(o) /\ DraftType(o) = "Window"
            THEN [r EXCEPT !.hosts[o] = <<>>]
            ELSE r

\* The loop without host. pick[i] is the parent that heads the InList of the
\* i-th object: any of its parents, since the order of InList is the
\* document's; st.valid records that every pick was such a parent.
RECURSIVE DetachLoop(_, _, _, _)
DetachLoop(objs, i, pick, st) ==
    IF i > Len(objs) \/ st.raised \/ ~st.valid THEN st
    ELSE LET o == objs[i]
             ps == ParentsIn(o, st)
             ok == IF ps = {} THEN pick[i] = None ELSE pick[i] \in ps
         IN IF ~ok THEN [st EXCEPT !.valid = FALSE]
            ELSE DetachLoop(objs, i + 1, pick, DetachStep(o, pick[i], st))

\* removeComponents(objectsList, host) with a host
removeComponents(arg, host) ==
    LET objs == AsList(arg)
        hostType == DraftType(host)
        toolRaises == HasTool(host) /\ objs = <<>>
        tool == IF HasTool(host) /\ objs # <<>> /\ objs[1] = Tool[host]
                THEN None ELSE Tool[host]
        left == IF HasAxes(host) THEN DropAxes(objs, Axes[host], objs) ELSE objs
        sub == SubtractLoop(left, host,
                            [s |-> Subtractions[host], hosts |-> Hosts,
                             att |-> AttachmentSupport, group |-> Group])
    IN
    /\ nOps' = nOps + 1
    /\ UNCHANGED <<GuiUp, docObjs>>
    /\ UNCHANGED <<Axes, Additions>>
    /\ IF hostType \in WallLikeTypes THEN
            IF toolRaises THEN
                /\ UNCHANGED <<Group, Subtractions, Objects, Tool, Hosts,
                               AttachmentSupport>>
                /\ last' = Call("removeComponents", arg, host, TRUE)
            ELSE
                /\ Tool' = [Tool EXCEPT ![host] = tool]
                /\ Subtractions' = [Subtractions EXCEPT ![host] = sub.s]
                /\ Hosts' = sub.hosts
                /\ AttachmentSupport' = sub.att
                /\ Group' = sub.group
                /\ UNCHANGED Objects
                /\ last' = Call("removeComponents", arg, host, FALSE)
       ELSE IF hostType \in SectionTypes THEN
            /\ Objects' = [Objects EXCEPT ![host] = SelectSeq(@, LAMBDA c : ~InSeq(c, objs))]
            /\ UNCHANGED <<Group, Subtractions, Tool, Hosts, AttachmentSupport>>
            /\ last' = Call("removeComponents", arg, host, FALSE)
       ELSE
            /\ UNCHANGED <<Group, Subtractions, Objects, Tool, Hosts, AttachmentSupport>>
            /\ last' = Call("removeComponents", arg, host, FALSE)

\* The parents that may head the InList of each listed object: one of its
\* parents, or None for an object without parents.
Picks(arg) == {p \in [1..Len(arg.items) -> HostArgs \cup {None}] :
                  \A i \in 1..Len(arg.items) : p[i] \in Parents(arg.items[i]) \cup {None}}

\* removeComponents(objectsList) without host
removeComponentsNoHost(arg, pick) ==
    LET objs == AsList(arg)
        det == DetachLoop(objs, 1, pick,
                          [group |-> Group, adds |-> Additions, subs |-> Subtractions,
                           objects |-> Objects, hosts |-> Hosts,
                           raised |-> FALSE, valid |-> TRUE])
    IN
    /\ det.valid
    /\ nOps' = nOps + 1
    /\ UNCHANGED <<GuiUp, docObjs>>
    /\ Group' = det.group
    /\ Additions' = det.adds
    /\ Subtractions' = det.subs
    /\ Objects' = det.objects
    /\ Hosts' = det.hosts
    /\ UNCHANGED <<Axes, Tool, AttachmentSupport>>
    /\ last' = Call("removeComponents", arg, None, det.raised)

RemoveComponents ==
    /\ nOps < MaxOps
    /\ \E arg \in ListArgs, host \in HostArgs : removeComponents(arg, host)
    /\ UNCHANGED <<surveyVars, graphVars, mergeVars, toolVars>>

RemoveComponentsNoHost ==
    /\ nOps < MaxOps
    /\ \E arg \in ListArgs : \E pick \in Picks(arg) : removeComponentsNoHost(arg, pick)
    /\ UNCHANGED <<surveyVars, graphVars, mergeVars, toolVars>>

CompNext == AddComponents \/ RemoveComponents \/ RemoveComponentsNoHost

Spec == CompInit /\ [][CompNext]_vars

\* The same operations on a document holding only the two wall-like hosts and
\* the components that removeComponents with a host tells apart: a window, an
\* axis and a wire (a valid path, which can be the Tool of the structure).
SubtractObjs == {"Wall1", "Structure1", "Window1", "Axis1", "Wire1"}

SubtractInit ==
    /\ SurveyIdle
    /\ GraphIdle
    /\ MergeIdle
    /\ ToolIdle
    /\ docObjs = SubtractObjs
    /\ Group = EmptyLinks
    /\ Additions = EmptyLinks
    /\ Subtractions = EmptyLinks
    /\ Axes = EmptyLinks
    /\ Objects = EmptyLinks
    /\ Tool = [h \in HostObjs |-> None]
    /\ Hosts = [o \in CompObjs |-> <<>>]
    /\ AttachmentSupport = [o \in CompObjs |-> IF o = "Wire1" THEN "Structure1" ELSE None]
    /\ GuiUp = TRUE
    /\ last = NoCall
    /\ nOps = 0

SpecSubtract == SubtractInit /\ [][CompNext]_vars

----------------------------------------------------------------------------
(* Claims about addComponents and removeComponents.                        *)

\* o is a component of host in the sense of claim C1.
IsComponentOf(o, host) ==
    LET hostType == DraftType(host) IN
    IF hostType \in GroupHostTypes \/ IsDocumentObjectGroup(host) THEN InSeq(o, Group[host])
    ELSE IF hostType \in SectionTypes THEN InSeq(o, Objects[host])
    ELSE IF hostType \in WallLikeTypes THEN
        \/ InSeq(o, Additions[host])
        \/ DraftType(o) = "Axis" /\ InSeq(o, Axes[host])
        \/ IsValidPath(o) /\ hostType \in ToolHostTypes /\ Tool[host] = o
        \/ DraftType(o) = "Window" /\ InSeq(host, Hosts[o])
    ELSE FALSE

\* C1: after addComponents(objectsList, host) every given object is a
\* component of the host: in its Group (group hosts), in its Objects (section
\* plane), or for a wall-like host in Additions, in Axes (an Axis), its Tool
\* (a valid path on a Structure/Precast) or hosted by it (a Window).
C1_AddComponentsAddsEveryObject ==
    last.op = "addComponents" =>
        \A o \in Elems(AsList(last.arg)) : IsComponentOf(o, last.host)

\* The parent types and lists claim C2 names.
DetachParentTypes == {"Floor", "Building", "Site", "BuildingPart", "Wall", "Structure",
                      "Precast", "SectionPlane"}

\* C2: after removeComponents(objectsList) without host, no given object is
\* left in the Group, Additions, Subtractions or Objects of any parent it had
\* (of type Floor, Building, Site, BuildingPart, Wall, Structure, Precast or
\* SectionPlane) when the call was made.
C2_RemoveComponentsDetachesFromAllParents ==
    [][(last'.op = "removeComponents" /\ last'.host = None) =>
          \A o \in Elems(AsList(last'.arg)) : \A h \in Parents(o) :
              DraftType(h) \in DetachParentTypes =>
                  /\ ~InSeq(o, Group'[h])
                  /\ ~InSeq(o, Additions'[h])
                  /\ ~InSeq(o, Subtractions'[h])
                  /\ ~InSeq(o, Objects'[h])]_vars

\* C3: removeComponents(objectsList, host) with a wall-like host leaves every
\* given object that is neither a Window nor one of the host's Axes exactly
\* once in host.Subtractions, and keeps every earlier subtraction.
C3_HostedRemoveAddsSubtractions ==
    [][(last'.op = "removeComponents" /\ last'.host # None
            /\ DraftType(last'.host) \in WallLikeTypes) =>
          LET host == last'.host IN
          /\ \A o \in Elems(AsList(last'.arg)) :
                (DraftType(o) # "Window" /\ ~InSeq(o, Axes[host]))
                    => Count(o, Subtractions'[host]) = 1
          /\ \A o \in Elems(Subtractions[host]) : InSeq(o, Subtractions'[host])]_vars

\* A call with a wall-like host given one of the host's axes and another
\* object: the other object has become the host's newest subtraction.
C3_Witness ==
    /\ last.op = "removeComponents"
    /\ last.host = "Structure1"
    /\ ~last.raised
    /\ Len(last.arg.items) = 2
    /\ \E a \in Elems(last.arg.items) : InSeq(a, Axes["Structure1"])
    /\ \E o \in Elems(last.arg.items) :
          /\ DraftType(o) # "Window"
          /\ ~InSeq(o, Axes["Structure1"])
          /\ Subtractions["Structure1"] # <<>>
          /\ Subtractions["Structure1"][Len(Subtractions["Structure1"])] = o

----------------------------------------------------------------------------
(* Survey mode: survey(callback), _SurveyObserver and SurveyTaskPanel.     *)
(* The tree widget of the task panel and the console output are left out:  *)
(* nothing of the survey state is computed from them.                      *)

MaxSelection == 3    \* entries the observer's selection list may reach

\* The objects the user can click: a solid, a line and a mesh (no Shape), and
\* the sub-elements of the solid.
SurveyObjs == {"Box", "Line", "Mesh"}
SubElements == {"Face1", "Edge1", "Vertex1"}

\* hasattr(o.Object, 'Shape')
ObjectHasShape(name) == name # "Mesh"
\* o.Object.Shape.Solids
ShapeHasSolids(name) == name = "Box"
\* o.Object.Shape.Faces
ShapeHasFaces(name) == name = "Box"
\* "Face" in el, "Edge" in el, "Vertex" in el
IsFace(el) == el = "Face1"
IsEdge(el) == el = "Edge1"
IsVertex(el) == el = "Vertex1"
\* u.Value for the volume, area or length of an object or of a sub-element
ShapeVolume(name) == IF name = "Box" THEN 3 ELSE 0
ShapeArea(name) == IF name = "Box" THEN 4 ELSE 0
ShapeLength(name) == IF name = "Line" THEN 1 ELSE 0
ElementArea(el) == IF el = "Face1" THEN 2 ELSE 0
ElementLength(el) == IF el = "Edge1" THEN 1 ELSE 0

\* A selection object of getSelectionEx(): one per object, with the names of
\* its selected sub-elements (none when the whole object is selected).
SelObj(name, subs) == [ObjectName |-> name, SubElementNames |-> subs]
HasSubObjects(o) == o.SubElementNames # <<>>

\* _SurveyObserver.__init__
NewObserver == [exists |-> TRUE, selection |-> <<>>, labels |-> <<>>, totalLength |-> 0,
                totalArea |-> 0, totalVolume |-> 0, cancellable |-> FALSE,
                doubleclear |-> FALSE]

\* The name ActiveDocument.addObject gives a new label: the first one free.
NewLabel(doc) == CHOOSE n \in 0..Cardinality(doc) :
                    n \notin doc /\ \A m \in 0..(n - 1) : m \in doc

\* The survey state as one record, for the operators below.
SurveyState == [obs |-> SurveyObserver, observers |-> observers, dialog |-> SurveyDialog,
                shown |-> dialogShown, doc |-> docLabels, gui |-> guiSelection]

\* FreeCADGui.Selection.removeObserver
RemoveObserver(n) == IF n > 0 THEN n - 1 ELSE 0

\* for el in o.SubElementNames: one label each, the area of a face and the
\* length of an edge added to the totals
RECURSIVE MeasureElements(_, _)
MeasureElements(els, w) ==
    IF els = <<>> THEN w
    ELSE LET el == Head(els)
             anno == NewLabel(w.doc)
             w1 == [w EXCEPT !.doc = @ \cup {anno}, !.obs.labels = Append(@, anno)]
             w2 == IF IsFace(el) THEN [w1 EXCEPT !.obs.totalArea = @ + ElementArea(el)]
                   ELSE IF IsEdge(el)
                   THEN [w1 EXCEPT !.obs.totalLength = @ + ElementLength(el)]
                   ELSE w1
         IN MeasureElements(Tail(els), w2)

\* The body of "for o in newsels"
MeasureObject(o, w) ==
    IF ~ObjectHasShape(o.ObjectName) THEN w
    ELSE IF ~HasSubObjects(o) THEN
        LET anno == NewLabel(w.doc)
            w1 == [w EXCEPT !.doc = @ \cup {anno}, !.obs.labels = Append(@, anno)]
        IN IF ShapeHasSolids(o.ObjectName)
           THEN [w1 EXCEPT !.obs.totalVolume = @ + ShapeVolume(o.ObjectName)]
           ELSE IF ShapeHasFaces(o.ObjectName)
           THEN [w1 EXCEPT !.obs.totalArea = @ + ShapeArea(o.ObjectName)]
           ELSE [w1 EXCEPT !.obs.totalLength = @ + ShapeLength(o.ObjectName)]
    ELSE MeasureElements(o.SubElementNames, w)

RECURSIVE MeasureNew(_, _)
MeasureNew(newsels, w) ==
    IF newsels = <<>> THEN w
    ELSE MeasureNew(Tail(newsels), MeasureObject(Head(newsels), w))

\* ResetTotals without the line that resets totalVolume.
ResetTotalsKeepsVolume(obs) ==
    [obs EXCEPT !.labels = <<>>, !.selection = <<>>, !.totalLength = 0, !.totalArea = 0]

\* The reset of the count: lines 852-856
ResetTotals(obs) == [obs EXCEPT !.labels = <<>>, !.selection = <<>>, !.totalLength = 0,
                                !.totalArea = 0, !.totalVolume = 0]

\* survey(callback=True), and the observer's clearSelection, which
\* SurveyDialog.newline() sets off by clearing the selection.
RECURSIVE SurveyCallback(_)
RECURSIVE ObserverClearSelection(_)

\* _SurveyObserver.clearSelection
ObserverClearSelection(w) ==
    IF w.observers = 0 \/ ~w.obs.exists THEN w
    ELSE IF ~w.obs.doubleclear THEN [w EXCEPT !.obs.doubleclear = TRUE]
    ELSE SurveyCallback(w)

\* SurveyTaskPanel.newline: FreeCADGui.Selection.clearSelection()
Newline(w) == ObserverClearSelection([w EXCEPT !.gui = <<>>])

SurveyCallback(w) ==
    LET sel == w.gui IN
    IF ~w.obs.exists THEN w
    ELSE IF sel = <<>> THEN
        IF w.obs.labels # <<>> THEN
            LET r == [w EXCEPT !.doc = @ \ Elems(w.obs.labels), !.obs = ResetTotals(@)]
            IN IF ~w.obs.cancellable
               THEN LET r2 == [r EXCEPT !.obs.cancellable = TRUE]
                    IN IF w.dialog THEN Newline(r2) ELSE r2
               ELSE [r EXCEPT !.observers = RemoveObserver(@), !.obs = NoObserver,
                              !.shown = FALSE, !.dialog = FALSE]
        ELSE w
    ELSE
        LET basesel == w.obs.selection
            newsels == SelectSeq(sel, LAMBDA o : ~InSeq(o, basesel))
            w1 == [w EXCEPT !.obs.cancellable = FALSE]
        IN IF newsels # <<>>
           THEN LET w2 == MeasureNew(newsels, w1)
                IN [w2 EXCEPT !.obs.selection = @ \o newsels]
           ELSE w1

\* _SurveyObserver.addSelection
ObserverAddSelection(w) ==
    IF w.observers = 0 \/ ~w.obs.exists THEN w
    ELSE SurveyCallback([w EXCEPT !.obs.doubleclear = FALSE])

\* survey(callback=False)
SurveyToggle(w) ==
    IF w.obs.exists
    THEN [w EXCEPT !.doc = @ \ Elems(w.obs.labels), !.observers = RemoveObserver(@),
                   !.obs = NoObserver, !.shown = FALSE, !.dialog = FALSE]
    ELSE [w EXCEPT !.obs = NewObserver, !.observers = @ + 1, !.dialog = TRUE,
                   !.shown = TRUE]

\* PanelReject without the call of Selection.removeObserver.
PanelRejectKeepsObserverRegistered(w) ==
    LET w1 == IF w.obs.exists
              THEN [w EXCEPT !.doc = @ \ Elems(w.obs.labels), !.obs = NoObserver]
              ELSE w
    IN [w1 EXCEPT !.shown = FALSE]

\* SurveyTaskPanel.reject: the panel closes once it has returned True.
PanelReject(w) ==
    LET w1 == IF w.obs.exists
              THEN [w EXCEPT !.doc = @ \ Elems(w.obs.labels),
                             !.observers = RemoveObserver(@), !.obs = NoObserver]
              ELSE w
    IN [w1 EXCEPT !.shown = FALSE]

\* The selection after the user has clicked the object name, or its
\* sub-element el (None: the whole object), with Ctrl held.
AddToSelection(gui, name, el) ==
    IF \E i \in 1..Len(gui) : gui[i].ObjectName = name
    THEN [i \in 1..Len(gui) |->
            IF gui[i].ObjectName = name
            THEN SelObj(name, Append(gui[i].SubElementNames, el))
            ELSE gui[i]]
    ELSE Append(gui, SelObj(name, IF el = None THEN <<>> ELSE <<el>>))

\* What the user can add to the selection: an object not selected yet, or a
\* further sub-element of an object whose sub-elements are selected.
CanSelect(gui, name, el) ==
    /\ el # None => name = "Box"
    /\ \A i \in 1..Len(gui) :
          gui[i].ObjectName = name =>
              /\ el # None
              /\ gui[i].SubElementNames # <<>>
              /\ ~InSeq(el, gui[i].SubElementNames)

SurveyCall(op, callback, w) ==
    [op |-> op, callback |-> callback, sel |-> w.gui, hadObserver |-> w.obs.exists,
     registered |-> w.observers, labels |-> w.obs.labels]

SetSurveyState(w) ==
    /\ SurveyObserver' = w.obs
    /\ observers' = w.observers
    /\ SurveyDialog' = w.dialog
    /\ dialogShown' = w.shown
    /\ docLabels' = w.doc
    /\ guiSelection' = w.gui

\* The link properties of a document without components.
ListsIdle ==
    /\ Group = EmptyLinks
    /\ Additions = EmptyLinks
    /\ Subtractions = EmptyLinks
    /\ Axes = EmptyLinks
    /\ Objects = EmptyLinks
    /\ Tool = [h \in HostObjs |-> None]
    /\ Hosts = [o \in CompObjs |-> <<>>]
    /\ AttachmentSupport = [o \in CompObjs |-> None]
    /\ nOps = 0

\* The same with the GUI running.
LinksIdle ==
    /\ ListsIdle
    /\ GuiUp = TRUE

\* The component variables while another group of functions runs.
CompIdle ==
    /\ docObjs = {}
    /\ LinksIdle

linkState == <<Group, Additions, Subtractions, Axes, Objects, Tool, Hosts,
               AttachmentSupport, GuiUp, nOps>>

compState == <<linkState, docObjs>>

SurveyInit ==
    /\ CompIdle
    /\ GraphIdle
    /\ MergeIdle
    /\ ToolIdle
    /\ SurveyIdle
    /\ last = SurveyCall("init", FALSE, SurveyState)

\* The user runs the survey command: survey()
Survey ==
    /\ SetSurveyState(SurveyToggle(SurveyState))
    /\ last' = SurveyCall("survey", FALSE, SurveyState)
    /\ UNCHANGED <<compState, graphVars, mergeVars, toolVars>>

\* The user clicks an object or a sub-element: the selection grows and the
\* selection system tells the observer.
UserSelect ==
    /\ SurveyObserver.exists => Len(SurveyObserver.selection) < MaxSelection
    /\ \E name \in SurveyObjs, el \in SubElements \cup {None} :
          /\ CanSelect(guiSelection, name, el)
          /\ LET w == [SurveyState EXCEPT !.gui = AddToSelection(@, name, el)]
             IN /\ SetSurveyState(ObserverAddSelection(w))
                /\ last' = SurveyCall("addSelection", observers > 0, w)
    /\ UNCHANGED <<compState, graphVars, mergeVars, toolVars>>

\* The user clicks on an empty area, or presses Clear in the panel: the
\* selection is cleared and the selection system tells the observer.
UserClear ==
    /\ LET w == [SurveyState EXCEPT !.gui = <<>>]
       IN /\ SetSurveyState(ObserverClearSelection(w))
          /\ last' = SurveyCall("clearSelection",
                                observers > 0 /\ SurveyObserver.exists
                                    /\ SurveyObserver.doubleclear, w)
    /\ UNCHANGED <<compState, graphVars, mergeVars, toolVars>>

\* The user closes the task panel.
Reject ==
    /\ dialogShown
    /\ SurveyDialog
    /\ SetSurveyState(PanelReject(SurveyState))
    /\ last' = SurveyCall("reject", FALSE, SurveyState)
    /\ UNCHANGED <<compState, graphVars, mergeVars, toolVars>>

SurveyNext == Survey \/ UserSelect \/ UserClear \/ Reject

SpecSurvey == SurveyInit /\ [][SurveyNext]_vars

----------------------------------------------------------------------------
(* Claims about survey mode.                                               *)

\* The last step ran survey(callback=True) with an empty selection while
\* FreeCAD.SurveyObserver was set.
EmptyClickCallback == last.callback /\ last.sel = <<>> /\ last.hadObserver

TotalsAreZero ==
    /\ SurveyObserver.totalLength = 0
    /\ SurveyObserver.totalArea = 0
    /\ SurveyObserver.totalVolume = 0

\* C4: after the survey callback has run with an empty selection while the
\* observer exists, the three totals are 0, the observer's selection and
\* labels are empty, and every label it listed is gone from the document.
C4_EmptyClickResetsTotalsSelectionAndLabels ==
    EmptyClickCallback =>
        /\ TotalsAreZero
        /\ SurveyObserver.selection = <<>>
        /\ SurveyObserver.labels = <<>>
        /\ Elems(last.labels) \cap docLabels = {}

\* C4 as amended: after the survey callback has run with an empty selection
\* while the observer exists, the three totals are 0, the observer's labels
\* are empty and every label it listed is gone from the document; its
\* selection is empty if it listed a label, and otherwise is kept and holds
\* only objects without a Shape.
C4_EmptyClickResetsTotalsAndLabels ==
    EmptyClickCallback =>
        /\ SurveyObserver.exists
        /\ TotalsAreZero
        /\ SurveyObserver.labels = <<>>
        /\ Elems(last.labels) \cap docLabels = {}
        /\ last.labels # <<>> => SurveyObserver.selection = <<>>
        /\ \A o \in Elems(SurveyObserver.selection) : ~ObjectHasShape(o.ObjectName)

\* An empty click that found two labels to remove.
C4_Witness ==
    /\ EmptyClickCallback
    /\ last.op = "clearSelection"
    /\ Len(last.labels) >= 2
    /\ SurveyObserver.cancellable

\* C5: survey() without callback toggles survey mode. With no observer
\* registered it creates one, registers it and shows a task panel; with one
\* registered it removes the labels the observer lists, unregisters and
\* deletes the observer, closes the dialog and deletes SurveyDialog. At most
\* one survey observer is ever registered.
C5_SurveyTogglesOneObserver ==
    /\ observers <= 1
    /\ last.op = "survey" =>
          IF last.registered = 0
          THEN /\ SurveyObserver = NewObserver
               /\ observers = 1
               /\ SurveyDialog
               /\ dialogShown
          ELSE /\ ~SurveyObserver.exists
               /\ observers = 0
               /\ Elems(last.labels) \cap docLabels = {}
               /\ ~dialogShown
               /\ ~SurveyDialog

\* survey() has ended a survey whose observer listed labels, with objects
\* still selected.
C5_Witness ==
    /\ last.op = "survey"
    /\ last.registered = 1
    /\ last.labels # <<>>
    /\ docLabels = {}
    /\ guiSelection # <<>>

----------------------------------------------------------------------------
(* getHost(obj, strict=True)                                               *)

\* The documents getHost is applied to: every acyclic graph over four
\* objects, each a wall, a floor (a group) or a spreadsheet.
HostKinds == {"Wall", "Floor", "Sheet"}

\* Draft.getType of an object of the graph
KindType(k) ==
    CASE k = "Wall" -> "Wall"
      [] k = "Floor" -> "Floor"
      [] k = "Sheet" -> "Spreadsheet"
      [] k = "Group" -> "Group"
      [] k = "Sketch" -> "Sketcher::SketchObject"
      [] k = "Window" -> "Window"
      [] k = "FeatureBase" -> "PartDesign::FeatureBase"
      [] k = "Body" -> "PartDesign::Body"
      [] k = "Binder" -> "PartDesign::SubShapeBinder"
      [] k = "Rebar" -> "Rebar"
      [] k = "Hosted" -> "Part"
      [] k = "Mirror" -> "Part::Mirroring"
      [] k = "Cut" -> "Part"
      [] OTHER -> "None"

GraphType(o) == KindType(objKind[o])

\* par.isDerivedFrom("Part::Feature") or par.isDerivedFrom("App::DocumentObjectGroup")
IsHostable(o) == objKind[o] \in {"Wall", "Floor"}

\* The position of an object in the document: links go from an object to
\* objects created before it, which keeps the graph acyclic.
Idx(o) == CASE o = "o1" -> 1 [] o = "o2" -> 2 [] o = "o3" -> 3 [] o = "o4" -> 4

DupFreeSeqs(S) == {l \in SeqsUpTo(S, Cardinality(S)) : NoDup(l)}

\* The InLists an object of S can have: its parents come after it.
InListsOf(o, S) ==
    IF o \in S THEN DupFreeSeqs({q \in S : Idx(q) > Idx(o)}) ELSE {<<>>}

\* The InLists of the acyclic graphs over the objects of S.
InLists(S) ==
    {[o1 |-> a, o2 |-> b, o3 |-> c, o4 |-> d] :
        a \in InListsOf("o1", S), b \in InListsOf("o2", S),
        c \in InListsOf("o3", S), d \in InListsOf("o4", S)}

\* The parent the loop over obj.InList returns at: the first that derives
\* from Part::Feature or App::DocumentObjectGroup, or None
RECURSIVE FirstHostable(_)
FirstHostable(l) ==
    IF l = <<>> THEN None
    ELSE IF IsHostable(Head(l)) THEN Head(l)
    ELSE FirstHostable(Tail(l))

RECURSIVE getHost(_, _)
getHost(obj, strict) ==
    LET t == GraphType(obj)
        par == FirstHostable(InList[obj])
    IN IF par = None THEN None
       ELSE IF strict
            THEN IF GraphType(par) # t THEN par ELSE getHost(par, strict)
            ELSE par

HostInit ==
    /\ CompIdle
    /\ SurveyIdle
    /\ MergeIdle
    /\ ToolIdle
    /\ objKind \in [GraphObjs -> HostKinds]
    /\ InList \in InLists(GraphObjs)
    /\ linkRef = [o \in GraphObjs |-> None]
    /\ last = [op |-> "init", obj |-> None, strict |-> TRUE, result |-> None]

GetHost ==
    /\ last.op = "init"
    /\ \E obj \in GraphObjs, strict \in BOOLEAN :
          last' = [op |-> "getHost", obj |-> obj, strict |-> strict,
                   result |-> getHost(obj, strict)]
    /\ UNCHANGED <<compState, surveyVars, graphVars, mergeVars, toolVars>>

HostNext == GetHost

SpecHost == HostInit /\ [][HostNext]_vars

\* C6: getHost(obj, strict=True) never returns an object of obj's own type,
\* and when obj has a parent of its own type that has a parent of another
\* type, it returns an object of another type, not None; with strict=False it
\* returns the first parent that is a Part::Feature or a group.
C6_GetHostReturnsHigherLevelHost ==
    last.op = "getHost" =>
        LET obj == last.obj
            t == GraphType(obj)
        IN IF last.strict
           THEN /\ last.result # None => GraphType(last.result) # t
                /\ (\E q \in Elems(InList[obj]) :
                       /\ IsHostable(q)
                       /\ GraphType(q) = t
                       /\ \E f \in Elems(InList[q]) : IsHostable(f) /\ GraphType(f) # t)
                      => (last.result # None /\ GraphType(last.result) # t)
           ELSE LET l == InList[obj]
                IN IF \E i \in 1..Len(l) : IsHostable(l[i])
                   THEN \E i \in 1..Len(l) :
                           /\ last.result = l[i]
                           /\ IsHostable(l[i])
                           /\ \A j \in 1..(i - 1) : ~IsHostable(l[j])
                   ELSE last.result = None

----------------------------------------------------------------------------
(* pruneIncluded(objectslist, strict=False, silent=False)                  *)

MaxPruneList == 2

\* The documents pruneIncluded is applied to: every acyclic graph over three
\* objects of these kinds.
PruneObjs == {"o1", "o2", "o3"}

PruneKinds == {"Group", "Sketch", "Window", "FeatureBase", "Body", "Binder",
               "Rebar", "Hosted", "Mirror", "Wall", "Cut"}

\* The kinds with a property whose link linkRef holds: Window.Hosts,
\* Body.BaseFeature, Rebar.Host, Hosted.Hosts, Wall.CloneOf.
LinkKinds == {"Window", "Body", "Rebar", "Hosted", "Wall"}

\* obj.isDerivedFrom("Part::Feature")
IsPartFeature(o) == objKind[o] \in PruneKinds \ {"Group"}

\* parent.isDerivedFrom("Part::Part2DObject")
IsPart2DObject(o) == objKind[o] = "Sketch"

\* parent.isDerivedFrom("PartDesign::FeatureBase")
IsFeatureBase(o) == objKind[o] = "FeatureBase"

\* parent.isDerivedFrom("PartDesign::Body")
IsBody(o) == objKind[o] = "Body"

\* parent.BaseFeature
BaseFeature(o) == IF objKind[o] = "Body" THEN linkRef[o] ELSE None

\* parent.isDerivedFrom("PartDesign::SubShapeBinder") or
\* parent.TypeId == "PartDesign::ShapeBinder"
IsBinder(o) == objKind[o] = "Binder"

\* hasattr(parent, "Host") and parent.Host
HasAttrHost(o) == objKind[o] = "Rebar"
Host(o) == IF objKind[o] = "Rebar" THEN linkRef[o] ELSE None

\* hasattr(parent, "Hosts") and parent.Hosts
HasAttrHosts(o) == objKind[o] \in {"Window", "Hosted"}
HostsOf(o) ==
    IF objKind[o] \in {"Window", "Hosted"} /\ linkRef[o] # None
    THEN <<linkRef[o]>> ELSE <<>>

\* parent.TypeId == "Part::Mirroring"
IsMirroring(o) == objKind[o] = "Mirror"

\* hasattr(parent, "CloneOf") and parent.CloneOf: the Arch components
HasAttrCloneOf(o) == objKind[o] \in {"Wall", "Rebar", "Window", "Hosted"}
CloneOf(o) == IF objKind[o] = "Wall" THEN linkRef[o] ELSE None

PruneExemptTypes == {"Window", "Clone", "Pipe", "Rebar", "Roof"}

PruneIgnoredParentTypes == {"BezCurve", "BSpline", "Clone", "Facebinder", "Wire",
                            "Project", "Roof", "Site", "Space", "Window"}

\* The if/elif chain of the loop over obj.InList: TRUE when the parent sets
\* toplevel to False.
\* The same chain without its Part::Mirroring branch.
ParentClearsTopLevelNoMirroring(parent, obj) ==
    IF ~IsPartFeature(parent) THEN FALSE
    ELSE IF IsPart2DObject(parent) THEN FALSE
    ELSE IF GraphType(parent) \in PruneIgnoredParentTypes THEN FALSE
    ELSE IF IsFeatureBase(parent) THEN FALSE
    ELSE IF IsBody(parent) /\ obj = BaseFeature(parent) THEN FALSE
    ELSE IF IsBinder(parent) THEN FALSE
    ELSE IF HasAttrHost(parent) /\ Host(parent) = obj THEN FALSE
    ELSE IF HasAttrHosts(parent) /\ InSeq(obj, HostsOf(parent)) THEN FALSE
    ELSE IF HasAttrCloneOf(parent)
         THEN IF CloneOf(parent) # None
              THEN CloneOf(parent) # obj
              ELSE TRUE
    ELSE TRUE

ParentClearsTopLevel(parent, obj) ==
    IF ~IsPartFeature(parent) THEN FALSE
    ELSE IF IsPart2DObject(parent) THEN FALSE
    ELSE IF GraphType(parent) \in PruneIgnoredParentTypes THEN FALSE
    ELSE IF IsFeatureBase(parent) THEN FALSE
    ELSE IF IsBody(parent) /\ obj = BaseFeature(parent) THEN FALSE
    ELSE IF IsBinder(parent) THEN FALSE
    ELSE IF HasAttrHost(parent) /\ Host(parent) = obj THEN FALSE
    ELSE IF HasAttrHosts(parent) /\ InSeq(obj, HostsOf(parent)) THEN FALSE
    ELSE IF IsMirroring(parent) THEN FALSE
    ELSE IF HasAttrCloneOf(parent)
         THEN IF CloneOf(parent) # None
              THEN CloneOf(parent) # obj
              ELSE TRUE
    ELSE TRUE

\* One turn of the loop over obj.InList: the value of toplevel after it.
ParentStep(toplevel, parent, obj, objectslist, newlist, strict) ==
    LET t == IF ParentClearsTopLevel(parent, obj) THEN FALSE ELSE toplevel
    IN IF t = FALSE /\ strict
       THEN IF ~InSeq(parent, objectslist) /\ ~InSeq(parent, newlist)
            THEN TRUE
            ELSE t
       ELSE t

RECURSIVE ParentLoop(_, _, _, _, _, _)
ParentLoop(toplevel, parents, obj, objectslist, newlist, strict) ==
    IF parents = <<>> THEN toplevel
    ELSE ParentLoop(ParentStep(toplevel, Head(parents), obj, objectslist, newlist, strict),
                    Tail(parents), obj, objectslist, newlist, strict)

\* toplevel at the end of one turn of the loop over objectslist
TopLevel(obj, objectslist, newlist, strict) ==
    IF IsPartFeature(obj) /\ GraphType(obj) \notin PruneExemptTypes
    THEN ParentLoop(TRUE, InList[obj], obj, objectslist, newlist, strict)
    ELSE TRUE

RECURSIVE PruneLoop(_, _, _, _)
PruneLoop(rest, objectslist, newlist, strict) ==
    IF rest = <<>> THEN newlist
    ELSE PruneLoop(Tail(rest), objectslist,
                   IF TopLevel(Head(rest), objectslist, newlist, strict)
                   THEN Append(newlist, Head(rest))
                   ELSE newlist,
                   strict)

pruneIncluded(objectslist, strict) == PruneLoop(objectslist, objectslist, <<>>, strict)

\* A link property holds a link only to an object that has its owner in its
\* InList.
LinksAreInLists ==
    \A o \in GraphObjs :
        linkRef[o] # None =>
            /\ objKind[o] \in LinkKinds
            /\ InSeq(o, InList[linkRef[o]])

PruneInit ==
    /\ CompIdle
    /\ SurveyIdle
    /\ MergeIdle
    /\ ToolIdle
    /\ objKind \in {[o1 |-> a, o2 |-> b, o3 |-> c, o4 |-> None] :
                      a \in PruneKinds, b \in PruneKinds, c \in PruneKinds}
    /\ InList \in InLists(PruneObjs)
    /\ linkRef \in {[o1 |-> None, o2 |-> b, o3 |-> c, o4 |-> None] :
                      b \in {"o1", None}, c \in {"o1", "o2", None}}
    /\ LinksAreInLists
    /\ last = [op |-> "init", objectslist |-> <<>>, strict |-> FALSE, result |-> <<>>]

PruneIncluded ==
    /\ last.op = "init"
    /\ \E objectslist \in SeqsUpTo(PruneObjs, MaxPruneList), strict \in BOOLEAN :
          last' = [op |-> "pruneIncluded", objectslist |-> objectslist,
                   strict |-> strict, result |-> pruneIncluded(objectslist, strict)]
    /\ UNCHANGED <<compState, surveyVars, graphVars, mergeVars, toolVars>>

PruneNext == PruneIncluded

SpecPrune == PruneInit /\ [][PruneNext]_vars

\* A parent of one of the kinds the claims list as ignored.
IgnoredParent(p, obj) ==
    \/ IsPart2DObject(p)
    \/ GraphType(p) \in {"BezCurve", "BSpline", "Clone", "Facebinder", "Wire",
                         "Project", "Roof", "Site", "Space", "Window"}
    \/ IsFeatureBase(p)
    \/ (IsBody(p) /\ BaseFeature(p) = obj)
    \/ IsBinder(p)
    \/ Host(p) = obj
    \/ InSeq(obj, HostsOf(p))
    \/ IsMirroring(p)
    \/ CloneOf(p) = obj

\* A parent that counts as a shape containing obj.
ContainingParent(p, obj) ==
    /\ InSeq(p, InList[obj])
    /\ IsPartFeature(p)
    /\ ~IgnoredParent(p, obj)

\* An object pruneIncluded may prune at all.
Prunable(obj) ==
    /\ IsPartFeature(obj)
    /\ GraphType(obj) \notin {"Window", "Clone", "Pipe", "Rebar", "Roof"}

\* C7: with strict=True an object is absent from the result only if one of
\* its containing parents is in objectslist, and a prunable object with a
\* containing parent in objectslist is absent from the result whatever its
\* other parents and their order.
C7_StrictPrunesExactlySelectedParents ==
    (last.op = "pruneIncluded" /\ last.strict) =>
        \A o \in Elems(last.objectslist) :
            /\ ~InSeq(o, last.result) =>
                   \E p \in Elems(last.objectslist) : ContainingParent(p, o)
            /\ (Prunable(o) /\ \E p \in Elems(last.objectslist) : ContainingParent(p, o))
                   => ~InSeq(o, last.result)

\* The objects the claim says are dropped when strict is False.
DroppedNonStrict(o) ==
    /\ Prunable(o)
    /\ \E p \in GraphObjs : ContainingParent(p, o)

KeptNonStrict(o) == ~DroppedNonStrict(o)

\* C8: with strict=False the result is the input list, in the same order,
\* without exactly the prunable objects that have a containing parent.
C8_NonStrictLeavesTopLevelShapes ==
    (last.op = "pruneIncluded" /\ ~last.strict) =>
        last.result = SelectSeq(last.objectslist, KeptNonStrict)

\* pruneIncluded with strict=False has dropped one object of a list and kept
\* another that has a Part::Feature parent of an ignored kind.
C8_Witness ==
    /\ last.op = "pruneIncluded"
    /\ ~last.strict
    /\ Len(last.result) = 1
    /\ Len(last.objectslist) = 2
    /\ \E p \in Elems(InList[last.result[1]]) :
          IsPartFeature(p) /\ IsMirroring(p)
    /\ Prunable(last.result[1])

----------------------------------------------------------------------------
(* mergeCells(objectslist)                                                 *)

MaxComponents == 2
MaxMergeList == 3

\* The objects the cells have as components.
MergeComps == {"Box001", "Box002", "Box003"}

\* Draft.getType of the objects given to mergeCells
CellType(o) ==
    CASE o \in {"Floor001", "Floor002", "Floor003"} -> "Floor"
      [] o = "Site001" -> "Site"
      [] OTHER -> "Wall"

MergeTypes == {"Cell", "Floor", "Building", "Site"}

\* The arguments: a list of distinct objects, or the same objects in a tuple.
MergeArgs ==
    {[isList |-> b, items |-> l] :
        b \in BOOLEAN, l \in {m \in SeqsUpTo(CellObjs, MaxMergeList) : NoDup(m)}}

\* The Components lists a cell can have: no component twice.
ComponentLists == {l \in SeqsUpTo(MergeComps, MaxComponents) : NoDup(l)}

\* The loop over o.Components, appending every component without a test.
RECURSIVE MergeComponentsAlwaysAppends(_, _)
MergeComponentsAlwaysAppends(l, cs) ==
    IF cs = <<>> THEN l
    ELSE MergeComponentsAlwaysAppends(Append(l, Head(cs)), Tail(cs))

\* The loop over o.Components: l after it.
RECURSIVE MergeComponents(_, _)
MergeComponents(l, cs) ==
    IF cs = <<>> THEN l
    ELSE MergeComponents(IF ~InSeq(Head(cs), l) THEN Append(l, Head(cs)) ELSE l,
                         Tail(cs))

\* The loop over the objects left in objectslist: base.Components and the
\* document after it.
RECURSIVE MergeLoop(_, _, _)
MergeLoop(base, rest, w) ==
    IF rest = <<>> THEN w
    ELSE LET o == Head(rest)
             l == MergeComponents(w.Components[base], w.Components[o])
         IN MergeLoop(base, Tail(rest),
                      [Components |-> [w.Components EXCEPT ![base] = l],
                       docObjs |-> w.docObjs \ {o}])

\* What a call leaves: the value returned, the argument, the Components lists
\* and the document.
MergeResult(result, items, w) ==
    [result |-> result, items |-> items,
     Components |-> w.Components, docObjs |-> w.docObjs]

\* mergeCells without its loop that compares every type with the first.
mergeCellsNoTypeLoop(arg, w) ==
    IF arg.items = <<>> THEN MergeResult(None, arg.items, w)
    ELSE IF ~arg.isList THEN MergeResult(None, arg.items, w)
    ELSE IF Len(arg.items) < 2 THEN MergeResult(None, arg.items, w)
    ELSE IF CellType(arg.items[1]) \notin MergeTypes THEN MergeResult(None, arg.items, w)
    ELSE LET base == Head(arg.items)
             objectslist == Tail(arg.items)
         IN MergeResult(base, objectslist, MergeLoop(base, objectslist, w))

mergeCells(arg, w) ==
    IF arg.items = <<>> THEN MergeResult(None, arg.items, w)
    ELSE IF ~arg.isList THEN MergeResult(None, arg.items, w)
    ELSE IF Len(arg.items) < 2 THEN MergeResult(None, arg.items, w)
    ELSE IF CellType(arg.items[1]) \notin MergeTypes THEN MergeResult(None, arg.items, w)
    ELSE IF \E i \in 1..Len(arg.items) : CellType(arg.items[i]) # CellType(arg.items[1])
         THEN MergeResult(None, arg.items, w)
    ELSE LET base == Head(arg.items)
             objectslist == Tail(arg.items)
         IN MergeResult(base, objectslist, MergeLoop(base, objectslist, w))

MergeState == [Components |-> Components, docObjs |-> docObjs]

MergeInit ==
    /\ LinksIdle
    /\ SurveyIdle
    /\ GraphIdle
    /\ ToolIdle
    /\ docObjs = CellObjs \cup MergeComps
    /\ Components \in {[Floor001 |-> a, Floor002 |-> b, Floor003 |-> c,
                        Site001 |-> d, Wall001 |-> <<>>] :
                          a \in ComponentLists, b \in ComponentLists,
                          c \in ComponentLists, d \in {<<>>, <<"Box001">>}}
    /\ last = [op |-> "init", arg |-> [isList |-> TRUE, items |-> <<>>],
               items |-> <<>>, result |-> None]

MergeCells ==
    /\ last.op = "init"
    /\ \E arg \in MergeArgs :
          LET r == mergeCells(arg, MergeState)
          IN /\ Components' = r.Components
             /\ docObjs' = r.docObjs
             /\ last' = [op |-> "mergeCells", arg |-> arg, items |-> r.items,
                         result |-> r.result]
    /\ UNCHANGED <<linkState, surveyVars, graphVars, toolVars>>

MergeNext == MergeCells

SpecMerge == MergeInit /\ [][MergeNext]_vars

\* The lists mergeCells merges: at least two objects of one cell type.
Mergeable(arg) ==
    /\ arg.isList
    /\ Len(arg.items) >= 2
    /\ CellType(arg.items[1]) \in {"Cell", "Floor", "Building", "Site"}
    /\ \A i \in 1..Len(arg.items) : CellType(arg.items[i]) = CellType(arg.items[1])

IsPrefix(a, b) == Len(a) <= Len(b) /\ SubSeq(b, 1, Len(a)) = a

C10_BadArgumentChangesNothing ==
    [][(last'.op = "mergeCells" /\ last.op = "init" /\ ~Mergeable(last'.arg)) =>
          /\ last'.result = None
          /\ docObjs' = docObjs
          /\ Components' = Components
          /\ last'.items = last'.arg.items]_vars

\* mergeCells has returned None for a list of two cells of different types
\* that have components.
C10_Witness ==
    /\ last.op = "mergeCells"
    /\ last.result = None
    /\ last.arg.isList
    /\ Len(last.arg.items) = 2
    /\ CellType(last.arg.items[1]) = "Floor"
    /\ CellType(last.arg.items[2]) = "Site"
    /\ Components[last.arg.items[1]] # <<>>
    /\ Components[last.arg.items[2]] # <<>>

----------------------------------------------------------------------------
(* getAllChildren(objectlist)                                              *)

MaxChildList == 2

\* The OutLists of the acyclic graphs over the objects of S: an object links
\* to objects that come after it.
OutLists(S) == InLists(S)

\* if not c in obs: obs.append(c), for every c of l
RECURSIVE AppendAllNew(_, _)
AppendAllNew(obs, l) ==
    IF l = <<>> THEN obs
    ELSE AppendAllNew(IF ~InSeq(Head(l), obs) THEN Append(obs, Head(l)) ELSE obs,
                      Tail(l))

RECURSIVE getAllChildren(_)
RECURSIVE ChildLoop(_, _)

\* getAllChildren looking only at the OutList of the objects given, not at
\* the children of their children.
getAllChildrenOneLevel(objectlist) ==
    LET direct(o) == OutList[o]
        RECURSIVE loop(_, _)
        loop(rest, obs) ==
            IF rest = <<>> THEN obs
            ELSE loop(Tail(rest),
                      AppendAllNew(AppendAllNew(obs, <<Head(rest)>>), direct(Head(rest))))
    IN loop(objectlist, <<>>)

\* The loop over objectlist: obs after it.
ChildLoop(rest, obs) ==
    IF rest = <<>> THEN obs
    ELSE LET o == Head(rest)
             obs1 == IF ~InSeq(o, obs) THEN Append(obs, o) ELSE obs
             obs2 == IF OutList[o] # <<>>
                     THEN AppendAllNew(obs1, getAllChildren(OutList[o]))
                     ELSE obs1
         IN ChildLoop(Tail(rest), obs2)

getAllChildren(objectlist) == ChildLoop(objectlist, <<>>)

ChildrenInit ==
    /\ CompIdle
    /\ SurveyIdle
    /\ GraphIdle
    /\ MergeIdle
    /\ CopyIdle
    /\ ShapeIdle
    /\ WiresIdle
    /\ MeshIdle
    /\ OutList \in OutLists(GraphObjs)
    /\ last = [op |-> "init", objectlist |-> <<>>, result |-> <<>>]

GetAllChildren ==
    /\ last.op = "init"
    /\ \E objectlist \in SeqsUpTo(GraphObjs, MaxChildList) :
          last' = [op |-> "getAllChildren", objectlist |-> objectlist,
                   result |-> getAllChildren(objectlist)]
    /\ UNCHANGED <<compState, surveyVars, graphVars, mergeVars, toolVars>>

ChildrenNext == GetAllChildren

SpecChildren == ChildrenInit /\ [][ChildrenNext]_vars

\* The objects of S and every object reachable from them through OutList.
RECURSIVE Reachable(_)
Reachable(S) ==
    LET T == S \cup UNION {Elems(OutList[o]) : o \in S}
    IN IF T = S THEN S ELSE Reachable(T)

\* C11: on an acyclic OutList graph getAllChildren(objectlist) returns the
\* given objects and every object reachable from them through OutList, at
\* any depth, each exactly once, and nothing else.
C11_GetAllChildrenReturnsReachable ==
    last.op = "getAllChildren" =>
        /\ Elems(last.result) = Reachable(Elems(last.objectlist))
        /\ NoDup(last.result)

\* getAllChildren has been given one object twice and has returned a
\* grandchild that two of its children share.
C11_Witness ==
    /\ last.op = "getAllChildren"
    /\ last.objectlist = <<"o1", "o1">>
    /\ OutList["o1"] = <<"o2", "o3">>
    /\ InSeq("o4", OutList["o2"]) /\ InSeq("o4", OutList["o3"])
    /\ InSeq("o4", last.result)

----------------------------------------------------------------------------
(* copyProperties(obj1, obj2)                                              *)

\* obj.PropertiesList, in the order the loop takes it
PropOrder == <<"Proxy", "Shape", "Height", "ShapeColor">>

HasProp(props, prop) == props[prop] # Absent

IsListed(props, prop) == prop \in DOMAIN props /\ HasProp(props, prop)

PropertiesList(props) == SelectSeq(PropOrder, LAMBDA prop : IsListed(props, prop))

\* One turn of the loop without the test that leaves Proxy and Shape alone.
CopyStepCopiesAll(prop, props1, props2) ==
    IF HasProp(props2, prop)
    THEN [props2 EXCEPT ![prop] = props1[prop]]
    ELSE props2

\* One turn of the loop over obj1.PropertiesList: the properties of obj2
\* after it.
CopyStep(prop, props1, props2) ==
    IF HasProp(props2, prop)
    THEN IF prop \notin {"Proxy", "Shape"}
         THEN [props2 EXCEPT ![prop] = props1[prop]]
         ELSE props2
    ELSE props2

RECURSIVE CopyLoop(_, _, _)
CopyLoop(list, props1, props2) ==
    IF list = <<>> THEN props2
    ELSE CopyLoop(Tail(list), props1, CopyStep(Head(list), props1, props2))

\* The properties of obj2 after the loop over the properties of obj1.
CopyProps(props1, props2) == CopyLoop(PropertiesList(props1), props1, props2)

CopyInit ==
    /\ CompIdle
    /\ SurveyIdle
    /\ GraphIdle
    /\ MergeIdle
    /\ ChildIdle
    /\ ShapeIdle
    /\ WiresIdle
    /\ MeshIdle
    /\ Properties \in [CopyObjs -> [PropNames -> PropValues \cup {Absent}]]
    /\ ViewObject \in [CopyObjs ->
          {NoViewObject} \cup
          {[exists |-> TRUE, props |-> f] :
              f \in [ViewPropNames -> PropValues \cup {Absent}]}]
    /\ last = [op |-> "init", obj1 |-> None, obj2 |-> None]

CopyProperties ==
    /\ last.op = "init"
    /\ \E obj1 \in CopyObjs, obj2 \in CopyObjs :
          /\ Properties' = [Properties EXCEPT
                ![obj2] = CopyProps(Properties[obj1], Properties[obj2])]
          /\ ViewObject' =
                IF ViewObject[obj1].exists /\ ViewObject[obj2].exists
                THEN [ViewObject EXCEPT
                        ![obj2].props = CopyProps(ViewObject[obj1].props,
                                                  ViewObject[obj2].props)]
                ELSE ViewObject
          /\ last' = [op |-> "copyProperties", obj1 |-> obj1, obj2 |-> obj2]
    /\ UNCHANGED <<compState, surveyVars, graphVars, mergeVars, OutList, shape, wires,
                   meshDoc>>

CopyNext == CopyProperties

SpecCopy == CopyInit /\ [][CopyNext]_vars

\* after holds the values of from for the names both have, Proxy and Shape
\* excepted, and the values of before for every other name.
CopiedFrom(names, from, before, after) ==
    \A p \in names :
        after[p] = IF /\ from[p] # Absent
                      /\ before[p] # Absent
                      /\ p # "Proxy"
                      /\ p # "Shape"
                   THEN from[p]
                   ELSE before[p]

\* C12: after copyProperties(obj1, obj2) every property both objects list,
\* other than Proxy and Shape, has in obj2 the value it has in obj1; every
\* other property of obj2 and every property of obj1 is unchanged; the same
\* holds for the two ViewObjects when both exist, and otherwise no ViewObject
\* changes.
C12_CopyPropertiesCopiesSharedProperties ==
    [][(last'.op = "copyProperties" /\ last.op = "init") =>
          LET obj1 == last'.obj1
              obj2 == last'.obj2
          IN /\ CopiedFrom(PropNames, Properties[obj1], Properties[obj2],
                           Properties'[obj2])
             /\ obj1 # obj2 => Properties'[obj1] = Properties[obj1]
             /\ IF ViewObject[obj1].exists /\ ViewObject[obj2].exists
                THEN /\ CopiedFrom(ViewPropNames, ViewObject[obj1].props,
                                   ViewObject[obj2].props, ViewObject'[obj2].props)
                     /\ ViewObject'[obj2].exists
                     /\ obj1 # obj2 => ViewObject'[obj1] = ViewObject[obj1]
                ELSE ViewObject' = ViewObject]_vars

\* copyProperties has copied Height and ShapeColor between two objects that
\* differ in Proxy and the target has kept its Proxy and its Shape, which the
\* source lacks.
C12_Witness ==
    /\ last.op = "copyProperties"
    /\ last.obj1 = "Wall002" /\ last.obj2 = "Window002"
    /\ Properties["Wall002"] = [Proxy |-> "v1", Shape |-> Absent, Height |-> "v1"]
    /\ Properties["Window002"] = [Proxy |-> "v2", Shape |-> "v2", Height |-> "v1"]
    /\ ViewObject["Wall002"].exists
    /\ ViewObject["Window002"].props = [Proxy |-> "v2", ShapeColor |-> "v1"]
    /\ ViewObject["Wall002"].props = [Proxy |-> "v1", ShapeColor |-> "v1"]

----------------------------------------------------------------------------
(* getExtrusionData(shape, sortmethod="area")                              *)

MaxFaces == 3

\* The normals f.normalAt(0,0) gives: four axis directions, a direction at
\* an odd angle to all of them, and "error" for a face on which it raises
\* Part.OCCError.
Normals == {"up", "down", "east", "west", "tilt", "error"}

\* The heights of the centers of mass and the areas of the faces.
Heights == {0, 1}
Areas == {1, 2}

\* The faces of a shape: planar, each with its normal, the height of its
\* center of mass and its area.
FaceSet == [normal : Normals, CenterOfMass : [z : Heights], Area : Areas]

Shapes ==
    {NullShape} \cup
    [isNull : {FALSE}, hasSolids : BOOLEAN, Faces : SeqsUpTo(FaceSet, MaxFaces)]

\* The point given as sortmethod, and the three ways of sorting.
SortPoint == [z |-> 1]
SortMethods == {"area", "z", "point"}

\* round(n1.getAngle(n2), 4) == 3.1416
IsOpposite(n1, n2) ==
    \/ (n1 = "up" /\ n2 = "down") \/ (n1 = "down" /\ n2 = "up")
    \/ (n1 = "east" /\ n2 = "west") \/ (n1 = "west" /\ n2 = "east")

\* round(n1.getAngle(n2), 4) == 1.5708
IsPerpendicular(n1, n2) ==
    \/ (n1 \in {"up", "down"} /\ n2 \in {"east", "west"})
    \/ (n1 \in {"east", "west"} /\ n2 \in {"up", "down"})

\* The loops over faces that fill pairs: the pairs in the order they are
\* appended.
RECURSIVE PairsFrom(_, _, _)
PairsFrom(faces, i1, i2) ==
    IF i1 > Len(faces) THEN <<>>
    ELSE IF i2 > Len(faces) THEN PairsFrom(faces, i1 + 1, 1)
    ELSE LET rest == PairsFrom(faces, i1, i2 + 1)
         IN IF i1 # i2 /\ IsOpposite(faces[i1].normal, faces[i2].normal)
            THEN <<(<<i1, i2>>)>> \o rest
            ELSE rest

\* The test of the other normals left out: ok stays True.
OthersPerpendicularUnchecked(faces, pair) == TRUE

\* ok after the loop that checks that the other normals are all at 90 degrees
OthersPerpendicular(faces, pair) ==
    \A k \in 1..Len(faces) :
        (k # pair[1] /\ k # pair[2]) =>
            IsPerpendicular(faces[k].normal, faces[pair[1]].normal)

\* v1.sub(v2)
VecSub(v1, v2) == [z |-> v1.z - v2.z]

\* What is appended to valids for a pair that is ok: the face with the lowest
\* z (its index in shape.Faces) and the vector to the other.
ValidOf(faces, pair) ==
    IF faces[pair[1]].CenterOfMass.z < faces[pair[2]].CenterOfMass.z
    THEN [face |-> pair[1],
          vector |-> VecSub(faces[pair[2]].CenterOfMass, faces[pair[1]].CenterOfMass)]
    ELSE [face |-> pair[2],
          vector |-> VecSub(faces[pair[1]].CenterOfMass, faces[pair[2]].CenterOfMass)]

RECURSIVE Valids(_, _)
Valids(faces, pairs) ==
    IF pairs = <<>> THEN <<>>
    ELSE IF OthersPerpendicular(faces, Head(pairs))
         THEN <<ValidOf(faces, Head(pairs))>> \o Valids(faces, Tail(pairs))
         ELSE Valids(faces, Tail(pairs))

\* The length of a vector, squared
Length2(v) == v.z * v.z

\* The key valids is sorted by
SortKey(faces, v, sortmethod) ==
    IF sortmethod = "z" THEN faces[v.face].CenterOfMass.z
    ELSE IF sortmethod = "area" THEN faces[v.face].Area
    ELSE Length2(VecSub(faces[v.face].CenterOfMass, SortPoint))

\* valids[0] after valids.sort(key=...): the sort is stable, so this is the
\* first of the entries with the smallest key.
SortedFirst(faces, valids, sortmethod) ==
    LET i == CHOOSE i \in 1..Len(valids) :
                /\ \A j \in 1..Len(valids) :
                      SortKey(faces, valids[i], sortmethod)
                          <= SortKey(faces, valids[j], sortmethod)
                /\ \A j \in 1..(i - 1) :
                      SortKey(faces, valids[j], sortmethod)
                          > SortKey(faces, valids[i], sortmethod)
    IN valids[i]

\* The value None, and a list [face, vector], as records of one form.
NoExtrusion == [isNone |-> TRUE, face |-> 0, vector |-> [z |-> 0]]
Extrusion(v) == [isNone |-> FALSE, face |-> v.face, vector |-> v.vector]

getExtrusionData(sh, sortmethod) ==
    IF sh.isNull THEN NoExtrusion
    ELSE IF ~sh.hasSolids THEN NoExtrusion
    ELSE IF Len(sh.Faces) < 3 THEN NoExtrusion
    ELSE IF \E i \in 1..Len(sh.Faces) : sh.Faces[i].normal = "error" THEN NoExtrusion
    ELSE LET pairs == PairsFrom(sh.Faces, 1, 1)
         IN IF pairs = <<>> THEN NoExtrusion
            ELSE LET valids == Valids(sh.Faces, pairs)
                 IN IF valids # <<>>
                    THEN Extrusion(SortedFirst(sh.Faces, valids, sortmethod))
                    ELSE NoExtrusion

ExtrusionInit ==
    /\ CompIdle
    /\ SurveyIdle
    /\ GraphIdle
    /\ MergeIdle
    /\ ChildIdle
    /\ CopyIdle
    /\ WiresIdle
    /\ MeshIdle
    /\ shape \in Shapes
    /\ last = [op |-> "init", sortmethod |-> "area", result |-> NoExtrusion]

GetExtrusionData ==
    /\ last.op = "init"
    /\ \E sortmethod \in SortMethods :
          last' = [op |-> "getExtrusionData", sortmethod |-> sortmethod,
                   result |-> getExtrusionData(shape, sortmethod)]
    /\ UNCHANGED <<compState, surveyVars, graphVars, mergeVars, toolVars>>

ExtrusionNext == GetExtrusionData

SpecExtrusion == ExtrusionInit /\ [][ExtrusionNext]_vars

\* C13: getExtrusionData returns a [face, vector] only for a shape that is
\* not null, has a solid and at least 3 faces, and then the face is one of
\* two distinct faces with opposite normals to which every other face's
\* normal is perpendicular, its center of mass is not higher than that of
\* the other, and the vector goes from its center of mass to the other's.
C13_ExtrusionDataOnlyForExtrusions ==
    (last.op = "getExtrusionData" /\ ~last.result.isNone) =>
        LET faces == shape.Faces
            n(k) == faces[k].normal
        IN /\ ~shape.isNull
           /\ shape.hasSolids
           /\ Len(faces) >= 3
           /\ \E i \in 1..Len(faces), j \in 1..Len(faces) :
                 /\ i # j
                 /\ IsOpposite(n(i), n(j))
                 /\ \A k \in 1..Len(faces) \ {i, j} :
                       IsPerpendicular(n(k), n(i)) /\ IsPerpendicular(n(k), n(j))
                 /\ last.result.face = i
                 /\ faces[i].CenterOfMass.z <= faces[j].CenterOfMass.z
                 /\ last.result.vector.z
                       = faces[j].CenterOfMass.z - faces[i].CenterOfMass.z

\* getExtrusionData has returned the lower of the two end faces of a solid
\* whose third face is its side, and the vector up to the other end.
C13_Witness ==
    /\ last.op = "getExtrusionData"
    /\ ~last.result.isNone
    /\ Len(shape.Faces) = 3
    /\ shape.Faces[1].normal = "up" /\ shape.Faces[1].CenterOfMass.z = 1
    /\ shape.Faces[2].normal = "east"
    /\ shape.Faces[3].normal = "down" /\ shape.Faces[3].CenterOfMass.z = 0
    /\ last.result.face = 3
    /\ last.result.vector.z = 1

----------------------------------------------------------------------------
(* makeFace(wires, method=2, cleanup=False), for a list of two or more     *)
(* wires                                                                   *)

MaxWires == 3

\* The wire objects and the diagonals of their bounding boxes.
WireObjs == {"w1", "w2", "w3"}
Diagonals == {0, 1, 2}

\* A wire: which object it is, w.BoundBox.DiagonalLength, whether
\* w.reverse() has turned it round, and whether it is the new wire
\* removeInterVertices made of the object.
Wire(name, d) == [name |-> name, DiagonalLength |-> d, reversed |-> FALSE, cleaned |-> FALSE]

\* The lists of two or more wires; an object listed twice is the same wire.
WireLists ==
    {l \in UNION {[1..k -> {Wire(n, d) : n \in WireObjs, d \in Diagonals}] : k \in 2..MaxWires} :
        \A i \in 1..Len(l), j \in 1..Len(l) : l[i].name = l[j].name => l[i] = l[j]}

\* DraftGeomUtils.removeInterVertices(w): a new wire with the bounding box of w
RemoveInterVertices(w) == [w EXCEPT !.cleaned = TRUE]

\* wires after the loop of cleanup
CleanUp(l) == [i \in 1..Len(l) |-> RemoveInterVertices(l[i])]

NoWire == [name |-> None, DiagonalLength |-> 0, reversed |-> FALSE, cleaned |-> FALSE]

\* The loop that looks for the biggest bounding box: ext and max_length
\* after it.
RECURSIVE FindExt(_, _, _)
FindExt(l, ext, max_length) ==
    IF l = <<>> THEN ext
    ELSE IF Head(l).DiagonalLength > max_length
         THEN FindExt(Tail(l), Head(l), Head(l).DiagonalLength)
         ELSE FindExt(Tail(l), ext, max_length)

\* w.reverse() on the wire w: every wire of l that is this object is turned.
Reverse(l, w) ==
    [i \in 1..Len(l) |->
        IF l[i].name = w.name /\ l[i].cleaned = w.cleaned
        THEN [l[i] EXCEPT !.reversed = ~@]
        ELSE l[i]]

\* for w in wires: w.reverse() -- what it makes of the list l that holds
\* the same objects
RECURSIVE ReverseAll(_, _)
ReverseAll(l, holes) ==
    IF holes = <<>> THEN l
    ELSE ReverseAll(Reverse(l, Head(holes)), Tail(holes))

\* What a call leaves: whether it raised, the wire taken as exterior
\* boundary, the wires taken as holes, and the caller's list.
FaceResult(raised, ext, holes, callers) ==
    [raised |-> raised, ext |-> ext, holes |-> holes, wires |-> callers]

makeFace(callers, method, cleanup) ==
    LET copy == IF cleanup THEN CleanUp(callers) ELSE callers
        ext == FindExt(copy, NoWire, 0)
    IN IF ~InSeq(ext, copy)
       THEN \* wires.remove(ext) raises ValueError
            FaceResult(TRUE, NoWire, <<>>, callers)
       ELSE LET holes == ListRemove(copy, ext)
            IN IF method = "reverse"
               THEN FaceResult(FALSE, ext, ReverseAll(holes, holes),
                               IF cleanup THEN callers ELSE ReverseAll(callers, holes))
               ELSE FaceResult(FALSE, ext, holes, callers)

FaceInit ==
    /\ CompIdle
    /\ SurveyIdle
    /\ GraphIdle
    /\ MergeIdle
    /\ ChildIdle
    /\ CopyIdle
    /\ ShapeIdle
    /\ MeshIdle
    /\ wires \in WireLists
    /\ last = [op |-> "init", arg |-> <<>>, method |-> "cut", cleanup |-> FALSE,
               result |-> FaceResult(FALSE, NoWire, <<>>, <<>>)]

MakeFace ==
    /\ last.op = "init"
    /\ \E method \in {"reverse", "cut"}, cleanup \in BOOLEAN :
          LET r == makeFace(wires, method, cleanup)
          IN /\ wires' = r.wires
             /\ last' = [op |-> "makeFace", arg |-> wires, method |-> method,
                         cleanup |-> cleanup, result |-> r]
    /\ UNCHANGED <<compState, surveyVars, graphVars, mergeVars, OutList,
                   Properties, ViewObject, shape, meshDoc>>

FaceNext == MakeFace

SpecFace == FaceInit /\ [][FaceNext]_vars

Names(l) == [i \in 1..Len(l) |-> l[i].name]

\* C14: makeFace on a list of two or more wires takes the first wire with the
\* largest bounding-box diagonal as exterior boundary and every other wire
\* of the list as a hole, whatever the diagonals are, and the caller's list
\* keeps its elements in their order.
C14_MakeFaceTakesLargestWireAsExterior ==
    last.op = "makeFace" =>
        LET l == last.arg
            r == last.result
        IN /\ ~r.raised
           /\ \E i \in 1..Len(l) :
                 /\ \A j \in 1..Len(l) : l[j].DiagonalLength <= l[i].DiagonalLength
                 /\ \A j \in 1..(i - 1) : l[j].DiagonalLength < l[i].DiagonalLength
                 /\ r.ext.name = l[i].name
                 /\ Names(r.holes) = Names(SubSeq(l, 1, i - 1) \o SubSeq(l, i + 1, Len(l)))
           /\ Names(wires) = Names(l)

----------------------------------------------------------------------------
(* meshToShape(obj, mark=True, fast=True, tol=0.001, flat=False, cut=True) *)

\* No shape: what getShapeFromMesh returns when it fails, and the Shape of
\* an object that has none.
NoShape == [exists |-> FALSE, isClosed |-> FALSE, isValid |-> FALSE]

\* The shapes getShapeFromMesh can return: a solid, a shell or a compound,
\* closed or not, valid or not.
MeshShapes == [exists : {TRUE}, isClosed : BOOLEAN, isValid : BOOLEAN]

DefaultColor == "default"
Red == "red"

\* An object of the document. Mesh is the shape getShapeFromMesh makes of
\* obj.Mesh with the arguments of the call.
DocObject(name, typeId, mesh, shp, color) ==
    [Name |-> name, TypeId |-> typeId, Mesh |-> mesh, Shape |-> shp, ShapeColor |-> color]

MeshFeature(name, mesh) == DocObject(name, "Mesh::Feature", mesh, NoShape, DefaultColor)

\* "Mesh" in obj.PropertiesList
HasMesh(obj) == obj.TypeId = "Mesh::Feature"

\* getShapeFromMesh(mesh, fast, tol, flat, cut)
getShapeFromMesh(obj) == obj.Mesh

DocNames(doc) == {o.Name : o \in doc}

\* The name ActiveDocument.addObject gives: the one asked for if it is free.
UniqueName(doc, name) ==
    IF name \notin DocNames(doc) THEN name
    ELSE IF name \o "001" \notin DocNames(doc) THEN name \o "001"
    ELSE name \o "002"

\* ActiveDocument.removeObject(name)
RemoveObject(doc, name) == {o \in doc : o.Name # name}

\* What a call leaves: whether it raised, the object returned (None: the
\* object NoObject) and the document.
NoObject == DocObject(None, None, NoShape, NoShape, DefaultColor)

MeshResult(raised, obj, doc) == [raised |-> raised, result |-> obj, doc |-> doc]

meshToShape(obj, mark, doc, gui) ==
    IF HasMesh(obj)
    THEN LET solid == getShapeFromMesh(obj)
         IN IF solid.exists
            THEN LET doc1 == IF solid.isClosed /\ solid.isValid
                             THEN RemoveObject(doc, obj.Name)
                             ELSE doc
                     name == UniqueName(doc1, obj.Name)
                     newobj == DocObject(name, "Part::Feature", NoShape, solid, DefaultColor)
                 IN IF (~solid.isClosed \/ ~solid.isValid) /\ mark
                    THEN IF gui
                         THEN LET red == [newobj EXCEPT !.ShapeColor = Red]
                              IN MeshResult(FALSE, red, doc1 \cup {red})
                         ELSE \* newobj.ViewObject is None: AttributeError
                              MeshResult(TRUE, NoObject, doc1 \cup {newobj})
                    ELSE MeshResult(FALSE, newobj, doc1 \cup {newobj})
            ELSE MeshResult(FALSE, NoObject, doc)
    ELSE MeshResult(FALSE, NoObject, doc)

\* The documents: two meshes and a box.
MeshDocs ==
    {{MeshFeature("Mesh", a), MeshFeature("Mesh001", b),
      DocObject("Box", "Part::Feature", NoShape,
                [exists |-> TRUE, isClosed |-> TRUE, isValid |-> TRUE], DefaultColor)} :
        a \in MeshShapes \cup {NoShape}, b \in MeshShapes \cup {NoShape}}

MeshInit ==
    /\ docObjs = {}
    /\ ListsIdle
    /\ GuiUp \in BOOLEAN
    /\ SurveyIdle
    /\ GraphIdle
    /\ MergeIdle
    /\ ChildIdle
    /\ CopyIdle
    /\ ShapeIdle
    /\ WiresIdle
    /\ meshDoc \in MeshDocs
    /\ last = [op |-> "init", obj |-> NoObject, mark |-> TRUE,
               raised |-> FALSE, result |-> NoObject]

MeshToShape ==
    /\ last.op = "init"
    /\ \E obj \in meshDoc, mark \in BOOLEAN :
          LET r == meshToShape(obj, mark, meshDoc, GuiUp)
          IN /\ meshDoc' = r.doc
             /\ last' = [op |-> "meshToShape", obj |-> obj, mark |-> mark,
                         raised |-> r.raised, result |-> r.result]
    /\ UNCHANGED <<compState, surveyVars, graphVars, mergeVars, OutList,
                   Properties, ViewObject, shape, wires>>

MeshNext == MeshToShape

SpecMesh == MeshInit /\ [][MeshNext]_vars

\* C15: meshToShape(obj, mark) on an object with a Mesh property that
\* converts to a shape adds and returns a new Part::Feature with that shape,
\* removes the mesh object exactly when the shape is closed and valid, and
\* with mark=True paints the new object red exactly when the shape is not
\* closed or not valid; otherwise it returns None and leaves the document as
\* it was.
C15_MeshToShapeAddsShapeObject ==
    [][(last'.op = "meshToShape" /\ last.op = "init") =>
          LET obj == last'.obj
              new == last'.result
              solid == obj.Mesh
          IN IF HasMesh(obj) /\ solid.exists
             THEN /\ ~last'.raised
                  /\ new \in meshDoc' /\ new \notin meshDoc
                  /\ new.TypeId = "Part::Feature"
                  /\ new.Shape = solid
                  /\ (obj \notin meshDoc') <=> (solid.isClosed /\ solid.isValid)
                  /\ meshDoc' \ {new} = meshDoc \ {obj} \/ meshDoc' \ {new} = meshDoc
                  /\ last'.mark =>
                        ((new.ShapeColor = Red) <=> (~solid.isClosed \/ ~solid.isValid))
             ELSE /\ ~last'.raised
                  /\ new = NoObject
                  /\ meshDoc' = meshDoc]_vars

====
